---- MODULE Spec2Model ----
(***************************************************************************)
(* Model of netdata_qmail_plugin: the line reassembly reader of fs.c       *)
(* (read_log_file), the rotation handling of fs.c (process_fs_event,       *)
(* reopen_log_file) and the event loop of qmail.plugin.c (main).           *)
(*                                                                         *)
(* Bytes are modelled as strings; the stream alphabet holds no NUL byte,   *)
(* so the C string handed to a collector is the whole byte range between   *)
(* the line start and the terminator that read_log_file overwrites.        *)
(* Collector implementations (callbacks.h, send.c, smtp.c, queue.c) are    *)
(* not part of the sources; their effect on an accumulator is modelled     *)
(* from the interface description: an accumulator is one counter.          *)
(***************************************************************************)
EXTENDS Integers, Sequences, FiniteSets, TLC

\* ---------------------------------------------------------------- bounds
\* sizeof watch->buf (fs.c:54); the real size is set in fs.h, the model
\* uses a small buffer so that full-buffer cases are reached.
Capacity == 3
\* Number of bytes the log writer appends when one log directory is watched.
MaxBytes == 5
\* Number of bytes the log writer appends when the file is rotated.
MaxBytesRot == 3
\* Number of bytes the log writer appends when the number of log directories
\* varies.
MaxBytesLoop == 2
\* Number of log directories found by detect_log_dirs.
MaxLogDirs == 2
\* Number of files created by rotation.
MaxRot == 1
\* Length of the pending inotify queue.
MaxEvents == 1

\* ------------------------------------------------------------- constants
NL == "\n"
Bytes == {"a", "b", NL}
DO_NOT_SKIP == "DO_NOT_SKIP"
SKIP_THE_REST == "SKIP_THE_REST"
WATCH_LOG_FILE == "WATCH_LOG_FILE"
WATCH_QUEUE == "WATCH_QUEUE"
ND_SUCCESS == "ND_SUCCESS"
ND_FILE == "ND_FILE"
NoFd == -1
\* A null pointer (memset(&watch, 0, sizeof watch), qmail.plugin.c:75).
NULL == "NULL"
\* inotify_event.name of a record whose len is 0.
NoName == ""

Min(a, b) == IF a < b THEN a ELSE b

\* ---------------------------------------------------------------- reader
\* memchr(line, '\n', n): position (1-based) of the first terminator of s,
\* 0 when there is none.
RECURSIVE memchr(_)
memchr(s) ==
    IF s = <<>> THEN 0
    ELSE IF Head(s) = NL THEN 1
    ELSE LET r == memchr(Tail(s)) IN IF r = 0 THEN 0 ELSE r + 1

\* watch->func->process(line, watch->data) of a log collector: the
\* accumulator counts the lines it is given.
process(line, data) == data + 1

\* watch->func->process(NULL, watch->data) of the queue collector (tick).
tick(data) == data + 1

\* aggregator->func->aggregate(aggregator->data, watch->data).
aggregate(adata, wdata) == adata + wdata

\* func->clear(data): memset(data, 0, sizeof *data).
clear(data) == 0

\* A scan state: the watch w, the bytes from the line pointer to the end
\* of the valid span, and the lines handed to the collector so far.
Dispatch(st, text) ==
    [st EXCEPT !.w.data = process(text, @), !.disp = Append(@, text)]

\* fs.c:61-69: a terminator at position e of the span.
FoundTerminatorNoReset(st, e) ==
    LET text == SubSeq(st.span, 1, e - 1)
        st1 == IF st.w.skip = DO_NOT_SKIP THEN Dispatch(st, text) ELSE st
    IN  [st1 EXCEPT !.span = SubSeq(st.span, e + 1, Len(st.span))]

FoundTerminator(st, e) ==
    LET text == SubSeq(st.span, 1, e - 1)
        st1 == IF st.w.skip = DO_NOT_SKIP
               THEN Dispatch(st, text)
               ELSE [st EXCEPT !.w.skip = DO_NOT_SKIP]
    IN  [st1 EXCEPT !.span = SubSeq(st.span, e + 1, Len(st.span))]

\* fs.c:70-83: no terminator in the remaining span.
NoTerminatorKeepsFull(st) ==
    LET max_line_length == Len(st.span)
    IN  IF max_line_length > 0 /\ max_line_length <= Capacity
        THEN [st EXCEPT !.w.buf = st.span, !.span = <<>>]
        ELSE [st EXCEPT !.span = <<>>]

NoTerminatorNoSkip(st) ==
    LET max_line_length == Len(st.span)
    IN  IF max_line_length > 0 /\ max_line_length < Capacity
        THEN [st EXCEPT !.w.buf = st.span, !.span = <<>>]
        ELSE IF max_line_length = Capacity
        THEN LET text == SubSeq(st.span, 1, Capacity - 1)
                 st1 == IF st.w.skip = DO_NOT_SKIP THEN Dispatch(st, text) ELSE st
             IN  [st1 EXCEPT !.span = <<>>]
        ELSE [st EXCEPT !.span = <<>>]

NoTerminator(st) ==
    LET max_line_length == Len(st.span)
    IN  IF max_line_length > 0 /\ max_line_length < Capacity
        THEN [st EXCEPT !.w.buf = st.span, !.span = <<>>]
        ELSE IF max_line_length = Capacity
        THEN LET text == SubSeq(st.span, 1, Capacity - 1)
                 st1 == IF st.w.skip = DO_NOT_SKIP THEN Dispatch(st, text) ELSE st
             IN  [st1 EXCEPT !.w.skip = SKIP_THE_REST, !.span = <<>>]
        ELSE [st EXCEPT !.span = <<>>]

\* fs.c:58-84: the for (;;) loop over the valid span.
RECURSIVE ScanLines(_)
ScanLines(st) ==
    LET e == memchr(st.span)
    IN  IF e # 0 THEN ScanLines(FoundTerminator(st, e)) ELSE NoTerminator(st)

\* fs.c:55-84: the body of the while loop for one read of `chunk`.
ReadChunkDropsBuffered(w, chunk) ==
    ScanLines([w |-> [w EXCEPT !.buf = <<>>], span |-> chunk, disp |-> <<>>])

ReadChunk(w, chunk) ==
    ScanLines([w |-> [w EXCEPT !.buf = <<>>], span |-> w.buf \o chunk, disp |-> <<>>])

\* fs.c:54-85: the while loop.  `avail` holds the bytes of the file past the
\* descriptor's offset.  Each read returns between 1 and
\* min(sizeof buf - buffered, |avail|) bytes, 0 at end of file, or fails;
\* the loop ends at the first read that returns no byte.  The result is the
\* set of outcomes [w, disp, n, chunks, err]: the watch, the lines handed to
\* the collector, the bytes consumed, the sizes of the reads and whether the
\* last read failed.
RECURSIVE ReadLoop(_, _)
ReadLoop(r, avail) ==
    LET room == Capacity - Len(r.w.buf)
        stop == {[r EXCEPT !.err = TRUE]}
                  \cup (IF avail = <<>> \/ room = 0 THEN {r} ELSE {})
        step(n) ==
            LET st == ReadChunk(r.w, SubSeq(avail, 1, n))
            IN  ReadLoop([w |-> st.w, disp |-> r.disp \o st.disp, n |-> r.n + n,
                          chunks |-> Append(r.chunks, n), err |-> FALSE],
                         SubSeq(avail, n + 1, Len(avail)))
    IN  stop \cup UNION {step(n) : n \in 1..Min(room, Len(avail))}

\* fs.c:44-88: read_log_file.
read_log_file_resets(w, avail) ==
    IF w.fd = NoFd
    THEN {[w |-> w, disp |-> <<>>, n |-> 0, chunks |-> <<>>, err |-> FALSE,
           ret |-> ND_FILE]}
    ELSE {[w |-> IF r.err THEN [r.w EXCEPT !.buf = <<>>, !.skip = DO_NOT_SKIP]
                 ELSE r.w,
           disp |-> r.disp, n |-> r.n, chunks |-> r.chunks,
           err |-> r.err, ret |-> ND_SUCCESS] :
            r \in ReadLoop([w |-> w, disp |-> <<>>, n |-> 0, chunks |-> <<>>,
                            err |-> FALSE], avail)}

read_log_file_nofd_clears(w, avail) ==
    IF w.fd = NoFd
    THEN {[w |-> [w EXCEPT !.buf = <<>>, !.skip = DO_NOT_SKIP], disp |-> <<>>,
           n |-> 0, chunks |-> <<>>, err |-> FALSE, ret |-> ND_FILE]}
    ELSE {[w |-> r.w, disp |-> r.disp, n |-> r.n, chunks |-> r.chunks,
           err |-> r.err, ret |-> ND_SUCCESS] :
            r \in ReadLoop([w |-> w, disp |-> <<>>, n |-> 0, chunks |-> <<>>,
                            err |-> FALSE], avail)}

read_log_file(w, avail) ==
    IF w.fd = NoFd
    THEN {[w |-> w, disp |-> <<>>, n |-> 0, chunks |-> <<>>, err |-> FALSE,
           ret |-> ND_FILE]}
    ELSE {[w |-> r.w, disp |-> r.disp, n |-> r.n, chunks |-> r.chunks,
           err |-> r.err, ret |-> ND_SUCCESS] :
            r \in ReadLoop([w |-> w, disp |-> <<>>, n |-> 0, chunks |-> <<>>,
                            err |-> FALSE], avail)}

\* ----------------------------------------------------------------- state
VARIABLES
    pc,           \* position of main: start, poll, signal, fs, timer, watch,
                  \* aggr, cleanup, exited
    run,          \* main's run flag
    i,            \* main's loop variable i (0-based, as in the C code)
    revents,      \* pfd[].revents of the last poll: [sig, fs, timer]
    watchers,     \* vector_watchers: sequence of struct fs_watch
    aggregators,  \* vector_aggregators: sequence of struct fs_watch_aggregator
    ofd,          \* open file description of each watch's fd: [file, pos]
    files,        \* contents of the files ever created, by file id
    named,        \* per log directory: id of the file named "current", 0 if none
    events,       \* pending inotify records: sequence of [wd, name]
    sigPending,   \* the signal fd is readable
    timerPending, \* the timer fd is readable
    exitCode,     \* exit status of the process, -1 while it runs
    quota,        \* number of bytes the log writer has still to append
    gh,           \* history per watch: bytes read, lines dispatched, marks
    rdres,        \* history: the last read_log_file call of this wake-up
    cyc           \* history of the current interval cycle

vars == <<pc, run, i, revents, watchers, aggregators, ofd, files, named, events,
          sigPending, timerPending, exitCode, quota, gh, rdres, cyc>>

\* What the environment leaves alone.
prog == <<pc, run, i, revents, watchers, aggregators, ofd, exitCode, gh, rdres, cyc>>

NoRead == [watch |-> 0, n |-> 0, chunks |-> <<>>, err |-> FALSE, ret |-> ND_SUCCESS,
           disp |-> 0]

NoCycle == [order |-> <<>>, nproc |-> <<>>, nclear |-> <<>>, wval |-> <<>>,
            wfail |-> FALSE, afail |-> FALSE, aemit |-> 0, aclear |-> 0,
            tstamp |-> 0]

NoHistory == [hist |-> <<>>, log |-> <<>>, histMark |-> 0, logMark |-> 0, reopens |-> 0,
              attach |-> -1]

\* What a log directory holds when the plugin starts: no file "current", an
\* empty one, or one with content.
InitFiles == {"none", "empty", "full"}

InitContent(k) == IF k = "full" THEN <<"a">> ELSE <<>>

InitWith(dirCounts, kinds, bytes) ==
    /\ pc = "start"
    /\ run = 1
    /\ i = 0
    /\ revents = [sig |-> FALSE, fs |-> FALSE, timer |-> FALSE]
    /\ watchers = <<>>
    /\ aggregators = <<>>
    /\ ofd = <<>>
    /\ \E nd \in dirCounts : \E k \in [1..nd -> kinds] :
          /\ files = [d \in 1..nd |-> InitContent(k[d])]
          /\ named = [d \in 1..nd |-> IF k[d] = "none" THEN 0 ELSE d]
    /\ events = <<>>
    /\ sigPending = FALSE
    /\ timerPending = FALSE
    /\ exitCode = -1
    /\ quota = bytes
    /\ gh = <<>>
    /\ rdres = NoRead
    /\ cyc = NoCycle

\* Any number of log directories, a short log.
Init == InitWith(0..MaxLogDirs, InitFiles, MaxBytesLoop)

\* One log directory whose file "current" is empty, a longer log.
InitReader == InitWith({1}, {"empty"}, MaxBytes)

\* One log directory whose file "current" is empty and is rotated.
InitRot == InitWith({1}, {"empty"}, MaxBytesRot)

\* ----------------------------------------------------------- environment
\* The writer, the kernel and the timer act while main waits in poll.  A step
\* of theirs during a wake-up commutes with the steps of that wake-up: a read
\* sees an appended byte only when it comes later, a queued record is handled
\* by the next drain of the queue, and a readable descriptor is seen by the
\* next poll.
Running == pc = "poll"

\* The log writer appends one byte to the file named "current" of directory d.
WriterAppend ==
    /\ Running
    /\ quota > 0
    /\ quota' = quota - 1
    /\ \E d \in 1..Len(named) : \E b \in Bytes :
          /\ named[d] # 0
          /\ files' = [files EXCEPT ![named[d]] = Append(@, b)]
    /\ UNCHANGED <<prog, named, events, sigPending, timerPending>>

\* The log writer replaces "current" of directory d by a new, empty file
\* (or creates the first one); inotify queues an IN_CREATE record for it.
WriterRotate ==
    /\ Running
    /\ Len(files) < Len(named) + MaxRot
    /\ Len(events) < MaxEvents
    /\ \E d \in 1..Len(named) :
          /\ files' = Append(files, <<>>)
          /\ named' = [named EXCEPT ![d] = Len(files) + 1]
          /\ events' = Append(events, [wd |-> d, name |-> "current"])
    /\ UNCHANGED <<prog, sigPending, timerPending, quota>>

\* Another entry is created in directory d (no change to "current").
CreateOther ==
    /\ Running
    /\ Len(events) < MaxEvents
    /\ \E d \in 1..Len(named) :
          events' = Append(events, [wd |-> d, name |-> "other"])
    /\ UNCHANGED <<prog, files, named, sigPending, timerPending, quota>>

\* The kernel's queue of inotify records overflows: it queues the record
\* IN_Q_OVERFLOW, whose wd is -1 and which has no name.
QueueOverflows ==
    /\ Running
    /\ Len(events) < MaxEvents
    /\ events' = Append(events, [wd |-> -1, name |-> NoName])
    /\ UNCHANGED <<prog, files, named, sigPending, timerPending, quota>>

\* "current" of directory d is renamed or removed; a descriptor open on it
\* stays open.  No record is queued: the watch is for IN_CREATE only.
WriterRemoves ==
    /\ Running
    /\ \E d \in 1..Len(named) :
          /\ named[d] # 0
          /\ named' = [named EXCEPT ![d] = 0]
    /\ UNCHANGED <<prog, files, events, sigPending, timerPending, quota>>

SignalArrives ==
    /\ Running
    /\ ~sigPending
    /\ sigPending' = TRUE
    /\ UNCHANGED <<prog, files, named, events, timerPending, quota>>

TimerExpires ==
    /\ Running
    /\ ~timerPending
    /\ timerPending' = TRUE
    /\ UNCHANGED <<prog, files, named, events, sigPending, quota>>

\* What the program leaves alone.
env == <<files, named, quota>>

\* ----------------------------------------------------------------- setup
\* qmail.plugin.c:46-68 prepare_watcher (called from detect_log_dirs).
prepare_watcher(d) ==
    [type |-> WATCH_LOG_FILE, watch_dir |-> d, file_name |-> "current",
     fd |-> IF named[d] = 0 THEN NoFd ELSE d,
     buf |-> <<>>, skip |-> DO_NOT_SKIP, data |-> 0]

\* open(file_name, O_RDONLY); lseek(watch->fd, 0, SEEK_END).
AttachAtStart(d) ==
    IF named[d] = 0 THEN [file |-> 0, pos |-> 0]
    ELSE [file |-> named[d], pos |-> 0]

AttachAtEnd(d) ==
    IF named[d] = 0 THEN [file |-> 0, pos |-> 0]
    ELSE [file |-> named[d], pos |-> Len(files[named[d]])]

\* qmail.plugin.c:70-89 append_queue_watcher.
queue_watcher ==
    [type |-> WATCH_QUEUE, watch_dir |-> -1, file_name |-> NULL, fd |-> NoFd,
     buf |-> <<>>, skip |-> DO_NOT_SKIP, data |-> 0]

\* qmail.plugin.c:134-151 append_ratelimit_aggregator.
ratelimit_aggregator == [type |-> WATCH_LOG_FILE, data |-> 0]

\* History: the length of the file "current" of directory d, -1 when the
\* directory has no such file (and for the queue watch).
FileLength(d) ==
    IF d > Len(named) \/ named[d] = 0 THEN -1 ELSE Len(files[named[d]])

\* qmail.plugin.c:170-224: main up to the event loop.  chdir, inotify_init1
\* and opendir end the process with exit(1) when they fail.
StartupFails ==
    /\ pc = "start"
    /\ pc' = "exited"
    /\ exitCode' = 1
    /\ UNCHANGED <<run, i, revents, watchers, aggregators, ofd, events,
                   sigPending, timerPending, gh, rdres, cyc, env>>

Startup ==
    /\ pc = "start"
    /\ watchers' = [d \in 1..Len(named) |-> prepare_watcher(d)] \o <<queue_watcher>>
    /\ ofd' = [d \in 1..Len(named) |-> AttachAtEnd(d)] \o <<[file |-> 0, pos |-> 0]>>
    /\ gh' = [d \in 1..(Len(named) + 1) |->
                [NoHistory EXCEPT !.attach = FileLength(d)]]
    /\ aggregators' = <<ratelimit_aggregator>>
    /\ pc' = "poll"
    /\ UNCHANGED <<run, i, revents, events, sigPending, timerPending,
                   exitCode, rdres, cyc, env>>

\* ------------------------------------------------------------ event loop
\* The bytes of watch k's file past the offset of its descriptor.
Avail(k) ==
    IF watchers[k].fd = NoFd THEN <<>>
    ELSE SubSeq(files[ofd[k].file], ofd[k].pos + 1, Len(files[ofd[k].file]))

\* History kept for one read_log_file call on watch k with outcome o.
Seen(k, o) ==
    [gh[k] EXCEPT !.hist = @ \o SubSeq(Avail(k), 1, o.n), !.log = @ \o o.disp]

LastRead(k, o) ==
    [watch |-> k, n |-> o.n, chunks |-> o.chunks, err |-> o.err, ret |-> o.ret,
     disp |-> Len(o.disp)]

\* qmail.plugin.c:227: poll(pfd, 3, -1) returns when a descriptor is readable.
\* qmail.plugin.c:235-243: the order in which revents is looked at.
PollTimerFirst ==
    /\ pc = "poll"
    /\ sigPending \/ timerPending \/ events # <<>>
    /\ revents' = [sig |-> sigPending, fs |-> events # <<>>, timer |-> timerPending]
    /\ pc' = IF sigPending THEN "signal"
             ELSE IF timerPending THEN "timer"
             ELSE "fs"
    /\ UNCHANGED <<run, i, watchers, aggregators, ofd, events,
                   sigPending, timerPending, exitCode, gh, rdres, cyc, env>>

Poll ==
    /\ pc = "poll"
    /\ sigPending \/ timerPending \/ events # <<>>
    /\ revents' = [sig |-> sigPending, fs |-> events # <<>>, timer |-> timerPending]
    /\ pc' = IF sigPending THEN "signal"
             ELSE IF events # <<>> THEN "fs"
             ELSE "timer"
    /\ UNCHANGED <<run, i, watchers, aggregators, ofd, events,
                   sigPending, timerPending, exitCode, gh, rdres, cyc, env>>

\* qmail.plugin.c:235-239: flush_read_fd(signal_fd); run = 0; continue.
HandleSignalNoContinue ==
    /\ pc = "signal"
    /\ sigPending' = FALSE
    /\ run' = 0
    /\ pc' = IF revents.fs THEN "fs"
             ELSE IF revents.timer THEN "timer"
             ELSE "cleanup"
    /\ UNCHANGED <<i, revents, watchers, aggregators, ofd, events,
                   timerPending, exitCode, gh, rdres, cyc, env>>

HandleSignal ==
    /\ pc = "signal"
    /\ sigPending' = FALSE
    /\ run' = 0
    /\ pc' = "cleanup"
    /\ UNCHANGED <<i, revents, watchers, aggregators, ofd, events,
                   timerPending, exitCode, gh, rdres, cyc, env>>

\* fs.c:90-98 reopen_log_file: close(fd); fd = open("dir/current", O_RDONLY).
reopen_log_file(w) ==
    [w EXCEPT !.fd = IF named[w.watch_dir] = 0 THEN NoFd ELSE w.watch_dir]

\* The open file description open() makes: the named file, at its start.
Reopened(w) ==
    IF named[w.watch_dir] = 0 THEN [file |-> 0, pos |-> 0]
    ELSE [file |-> named[w.watch_dir], pos |-> 0]

\* fs.c:106-110: the watches an inotify record is for: event->wd ==
\* item->watch_dir, event->len, !strcmp(event->name, item->file_name).
\* Startup gives every log watch its own watch descriptor, so at most one
\* watch matches.  The kernel uses wd -1 only in the queue overflow record,
\* whose len is 0, so the null file_name of the queue watch is never compared.
MatchingAnyName(ev) ==
    {k \in 1..Len(watchers) :
        /\ ev.wd = watchers[k].watch_dir
        /\ ev.name # NoName}

Matching(ev) ==
    {k \in 1..Len(watchers) :
        /\ ev.wd = watchers[k].watch_dir
        /\ ev.name # NoName
        /\ ev.name = watchers[k].file_name}

\* fs.c:100-117 process_fs_event for the first pending record, one round of
\* the loop of process_fs_event_queue (fs.c:126-140).
ProcessFsEventNoDrain ==
    /\ pc = "fs"
    /\ events # <<>>
    /\ events' = Tail(events)
    /\ LET ev == Head(events)
       IN  IF Matching(ev) = {}
           THEN UNCHANGED <<watchers, ofd, gh, rdres>>
           ELSE LET k == CHOOSE m \in Matching(ev) : TRUE
                    o == [w |-> watchers[k], disp |-> <<>>, n |-> 0,
                          chunks |-> <<>>, err |-> FALSE, ret |-> ND_SUCCESS]
                IN  /\ watchers' = [watchers EXCEPT ![k] = reopen_log_file(o.w)]
                    /\ ofd' = [ofd EXCEPT ![k] = Reopened(o.w)]
                    /\ gh' = [gh EXCEPT ![k] =
                                [Seen(k, o) EXCEPT
                                   !.histMark = Len(gh[k].hist) + o.n,
                                   !.logMark = Len(gh[k].log) + Len(o.disp),
                                   !.reopens = @ + 1]]
                    /\ rdres' = LastRead(k, o)
    /\ UNCHANGED <<pc, run, i, revents, aggregators, sigPending,
                   timerPending, exitCode, cyc, env>>

ProcessFsEvent ==
    /\ pc = "fs"
    /\ events # <<>>
    /\ events' = Tail(events)
    /\ LET ev == Head(events)
       IN  IF Matching(ev) = {}
           THEN UNCHANGED <<watchers, ofd, gh, rdres>>
           ELSE LET k == CHOOSE m \in Matching(ev) : TRUE
                IN  \E o \in read_log_file(watchers[k], Avail(k)) :
                       /\ watchers' = [watchers EXCEPT ![k] = reopen_log_file(o.w)]
                       /\ ofd' = [ofd EXCEPT ![k] = Reopened(o.w)]
                       /\ gh' = [gh EXCEPT ![k] =
                                   [Seen(k, o) EXCEPT
                                      !.histMark = Len(gh[k].hist) + o.n,
                                      !.logMark = Len(gh[k].log) + Len(o.disp),
                                      !.reopens = @ + 1]]
                       /\ rdres' = LastRead(k, o)
    /\ UNCHANGED <<pc, run, i, revents, aggregators, sigPending,
                   timerPending, exitCode, cyc, env>>

\* fs.c:133-134 and qmail.plugin.c:243: the queue is empty, go on to the timer.
FsQueueDrained ==
    /\ pc = "fs"
    /\ events = <<>>
    /\ pc' = IF revents.timer THEN "timer" ELSE "poll"
    /\ rdres' = IF revents.timer THEN rdres ELSE NoRead
    /\ UNCHANGED <<run, i, revents, watchers, aggregators, ofd, events,
                   sigPending, timerPending, exitCode, gh, cyc, env>>

NewCycle ==
    [order |-> <<>>,
     nproc |-> [k \in 1..Len(watchers) |-> 0],
     nclear |-> [k \in 1..Len(watchers) |-> 0],
     wval |-> [k \in 1..Len(watchers) |-> -1],
     wfail |-> FALSE, afail |-> FALSE, aemit |-> 0, aclear |-> 0,
     tstamp |-> 0]

\* qmail.plugin.c:243-245: flush_read_fd(timer_fd); i = 0.
StartCycle ==
    /\ pc = "timer"
    /\ timerPending' = FALSE
    /\ i' = 0
    /\ cyc' = NewCycle
    /\ pc' = "watch"
    /\ UNCHANGED <<run, revents, watchers, aggregators, ofd, events,
                   sigPending, exitCode, gh, rdres, env>>

\* End of the switch statement: back to the loop condition (qmail.plugin.c:226).
LoopTop(r) == IF r = 1 THEN "poll" ELSE "cleanup"

\* qmail.plugin.c:253-258: combine the watch into the aggregators of its type.
CombineAll(aggrs, w) ==
    [j \in 1..Len(aggrs) |-> [aggrs[j] EXCEPT !.data = aggregate(@, w.data)]]

Combine(aggrs, w) ==
    [j \in 1..Len(aggrs) |->
        IF aggrs[j].type = w.type
        THEN [aggrs[j] EXCEPT !.data = aggregate(@, w.data)]
        ELSE aggrs[j]]

\* The value of i when the inner loop (qmail.plugin.c:253) is left: the loop
\* runs on main's i, the variable of the loop over the watches.
InnerLoopExit(iv) == Len(aggregators)

\* History counters tell never, once and more than once apart.
Bump(n) == IF n < 2 THEN n + 1 ELSE n

\* qmail.plugin.c:263 update_timestamp(&watch->time): every round of the loop
\* stores a new time stamp; the model keeps whether the number of stamps
\* taken in the cycle is odd.
update_timestamp(t) == 1 - t

\* qmail.plugin.c:248-251: the reader on a log file, the tick on the queue.
Collect(k) ==
    IF watchers[k].type = WATCH_LOG_FILE
    THEN read_log_file(watchers[k], Avail(k))
    ELSE {[w |-> [watchers[k] EXCEPT !.data = tick(@)], disp |-> <<>>, n |-> 0,
           chunks |-> <<>>, err |-> FALSE, ret |-> ND_SUCCESS]}

\* qmail.plugin.c:245-270: one round of the loop over the watches.  `ok` is
\* the result of watch->func->print: whether the sink took the snapshot.
CycleWatch ==
    /\ pc = "watch"
    /\ i < Len(watchers)
    /\ LET k == i + 1
       IN  \E o \in Collect(k) : \E ok \in BOOLEAN :
              /\ aggregators' = Combine(aggregators, o.w)
              /\ ofd' = [ofd EXCEPT ![k].pos = @ + o.n]
              /\ gh' = [gh EXCEPT ![k] = Seen(k, o)]
              /\ rdres' = IF watchers[k].type = WATCH_LOG_FILE
                          THEN LastRead(k, o) ELSE rdres
              /\ watchers' = [watchers EXCEPT ![k] =
                                IF ok THEN [o.w EXCEPT !.data = clear(@)] ELSE o.w]
              /\ run' = IF ok THEN run ELSE 0
              /\ cyc' = [cyc EXCEPT
                           !.order = IF cyc.nproc[k] = 0 THEN Append(@, k) ELSE @,
                           !.nproc[k] = Bump(@),
                           !.wval[k] = o.w.data,
                           !.wfail = ~ok,
                           !.nclear[k] = IF ok THEN Bump(@) ELSE @,
                           !.tstamp = update_timestamp(@)]
              /\ IF ok /\ InnerLoopExit(i) + 1 < Len(watchers)
                 THEN /\ i' = InnerLoopExit(i) + 1
                      /\ pc' = "watch"
                 ELSE /\ i' = 0
                      /\ pc' = IF Len(aggregators) > 0 THEN "aggr" ELSE LoopTop(run')
    /\ UNCHANGED <<revents, events, sigPending, timerPending, exitCode, env>>

\* qmail.plugin.c:271-283: one round of the loop over the aggregators.  The
\* history of the cycle is dropped when main goes back to poll.
CycleAggr ==
    /\ pc = "aggr"
    /\ i < Len(aggregators)
    /\ LET j == i + 1
       IN  \E ok \in BOOLEAN :
              /\ aggregators' = IF ok THEN [aggregators EXCEPT ![j].data = clear(@)]
                                ELSE aggregators
              /\ run' = IF ok THEN run ELSE 0
              /\ IF ok /\ i + 1 < Len(aggregators)
                 THEN /\ i' = i + 1
                      /\ pc' = "aggr"
                 ELSE /\ i' = IF ok THEN i + 1 ELSE i
                      /\ pc' = LoopTop(run')
              /\ IF pc' = "poll"
                 THEN cyc' = NoCycle /\ rdres' = NoRead
                 ELSE /\ cyc' = [cyc EXCEPT !.aemit = Bump(@),
                                            !.afail = ~ok,
                                            !.aclear = IF ok THEN Bump(@) ELSE @]
                      /\ rdres' = rdres
    /\ UNCHANGED <<revents, watchers, ofd, events, sigPending,
                   timerPending, exitCode, gh, env>>

\* qmail.plugin.c:288-303: release everything and return 0.
Cleanup ==
    /\ pc = "cleanup"
    /\ exitCode' = 0
    /\ pc' = "exited"
    /\ UNCHANGED <<run, i, revents, watchers, aggregators, ofd, events,
                   sigPending, timerPending, gh, rdres, cyc, env>>

Next ==
    \/ StartupFails
    \/ Startup
    \/ Poll
    \/ HandleSignal
    \/ ProcessFsEvent
    \/ FsQueueDrained
    \/ StartCycle
    \/ CycleWatch
    \/ CycleAggr
    \/ Cleanup
    \/ WriterAppend
    \/ WriterRotate
    \/ CreateOther
    \/ SignalArrives
    \/ TimerExpires

\* The program next to a writer that only appends: no entry is created in
\* the log directory, so no inotify record is ever queued.
NextReader ==
    \/ StartupFails
    \/ Startup
    \/ Poll
    \/ HandleSignal
    \/ StartCycle
    \/ CycleWatch
    \/ CycleAggr
    \/ Cleanup
    \/ WriterAppend
    \/ SignalArrives
    \/ TimerExpires

\* The program next to a writer that appends and rotates.
NextRot ==
    \/ StartupFails
    \/ Startup
    \/ Poll
    \/ HandleSignal
    \/ ProcessFsEvent
    \/ FsQueueDrained
    \/ StartCycle
    \/ CycleWatch
    \/ CycleAggr
    \/ Cleanup
    \/ WriterAppend
    \/ WriterRotate
    \/ SignalArrives
    \/ TimerExpires

Spec == Init /\ [][Next]_vars

SpecReader == InitReader /\ [][NextReader]_vars

SpecRot == InitRot /\ [][NextRot]_vars

\* The program with two log directories next to a writer that appends and
\* rotates, other entries being created and the record queue overflowing.
NextFs ==
    \/ Next
    \/ QueueOverflows

InitFs == InitWith({2}, {"empty"}, MaxBytesLoop)

SpecFs == InitFs /\ [][NextFs]_vars

\* One log directory whose file "current" is missing or has content when
\* the plugin starts, next to a writer that appends, rotates and removes.
NextAttach ==
    \/ NextRot
    \/ WriterRemoves

InitAttach == InitWith({1}, {"none", "full"}, MaxBytesLoop)

SpecAttach == InitAttach /\ [][NextAttach]_vars

\* Two log directories and the queue watch, next to a writer that only
\* appends.
InitLive == InitWith({2}, {"empty"}, MaxBytesLoop)

\* qmail.plugin.c:243-284: the interval cycle.  It is straight-line code of
\* one thread: once started it goes on as long as it has a step to take.
\* Nothing is assumed of the writer, the timer or the signal.
Cycle ==
    \/ StartCycle
    \/ CycleWatch
    \/ CycleAggr

SpecLive == InitLive /\ [][NextReader]_vars /\ WF_vars(Cycle)

\* --------------------------------------------------- reference definitions
\* What a byte stream s should give, stated on the whole stream and not on
\* the way it is read.
Terminators(s) == {p \in 1..Len(s) : s[p] = NL}

\* The last terminator before position p, 0 when there is none.
Before(s, p) ==
    LET T == {q \in Terminators(s) : q < p}
    IN  IF T = {} THEN 0 ELSE CHOOSE q \in T : \A r \in T : r <= q

\* The n-th terminator of s.
NthTerminator(s, n) ==
    LET T == Terminators(s)
    IN  CHOOSE p \in T : Cardinality({q \in T : q <= p}) = n

\* The terminator-delimited lines of s, in order, without their terminators.
LinesOf(s) ==
    LET T == Terminators(s)
    IN  [n \in 1..Cardinality(T) |->
            LET p == CHOOSE p \in T : Cardinality({q \in T : q <= p}) = n
                b == IF \E q \in T : q < p
                     THEN CHOOSE q \in T : q < p /\ \A r \in T : r < p => r <= q
                     ELSE 0
            IN  SubSeq(s, b + 1, p - 1)]

\* The bytes after the last terminator of s.
TailOf(s) == SubSeq(s, Before(s, Len(s) + 1) + 1, Len(s))

\* Every line of s, the unfinished last one included, is shorter than the buffer.
AllShort(s) ==
    LET L == LinesOf(s)
    IN  /\ \A n \in 1..Len(L) : Len(L[n]) < Capacity
        /\ Len(TailOf(s)) < Capacity

Truncated(l) == IF Len(l) >= Capacity THEN SubSeq(l, 1, Capacity - 1) ELSE l

\* The lines a reader that starts with an empty buffer, not skipping, owes
\* for s: every finished line, and the unfinished last line once it has
\* filled the buffer, each cut to Capacity - 1 bytes when it is longer.
Expected(s) ==
    LET L == LinesOf(s)
        t == TailOf(s)
    IN  [n \in 1..Len(L) |-> Truncated(L[n])]
            \o (IF Len(t) >= Capacity THEN <<Truncated(t)>> ELSE <<>>)

ExpectedSkip(s) == IF Len(TailOf(s)) >= Capacity THEN SKIP_THE_REST ELSE DO_NOT_SKIP

LogWatches == {k \in 1..Len(watchers) : watchers[k].type = WATCH_LOG_FILE}

\* The bytes watch k has read, and the lines it has dispatched, since its
\* last reopen.
SinceReopen(k) == SubSeq(gh[k].hist, gh[k].histMark + 1, Len(gh[k].hist))

LogSinceReopen(k) == SubSeq(gh[k].log, gh[k].logMark + 1, Len(gh[k].log))

\* ---------------------------------------------------------------- claims
\* C1: from an empty buffer and skip = DO_NOT_SKIP, for a stream whose lines
\* are all shorter than the buffer and however the stream is cut into reads,
\* the lines dispatched are exactly the terminator-delimited lines of the
\* stream read so far, in order, and the bytes after the last terminator are
\* buffered, not dispatched.
C1_FragmentationIndependent ==
    \A k \in LogWatches :
        (gh[k].reopens = 0 /\ AllShort(gh[k].hist))
        => /\ gh[k].log = LinesOf(gh[k].hist)
           /\ watchers[k].buf = TailOf(gh[k].hist)

\* "a" was read and buffered by an earlier call, "b\n" by the last one: one
\* line "ab" has been dispatched.
C1_Witness ==
    \E k \in LogWatches :
        /\ gh[k].reopens = 0
        /\ gh[k].hist = <<"a", "b", NL>>
        /\ rdres.watch = k /\ rdres.chunks = <<2>>
        /\ gh[k].log = << <<"a", "b">> >>

C3_RotationStartsClean ==
    \A k \in LogWatches :
        (gh[k].reopens > 0 /\ AllShort(SinceReopen(k)))
        => LogSinceReopen(k) = LinesOf(SinceReopen(k))

\* C4: in a cycle no watch is processed twice, and when the loop over the
\* watches is left without a sink failure every watch has been processed
\* once, in registry order.
C4_EveryWatchOnceInOrder ==
    /\ \A k \in DOMAIN cyc.nproc : cyc.nproc[k] <= 1
    /\ (pc = "aggr" /\ ~cyc.wfail)
       => cyc.order = [k \in 1..Len(watchers) |-> k]

\* The accumulator of watch k for this interval: what it held when it was
\* emitted, or what it holds when the cycle has not processed it.
Held(k) == IF cyc.nproc[k] > 0 THEN cyc.wval[k] ELSE watchers[k].data

RECURSIVE HeldSum(_, _)
HeldSum(type, k) ==
    IF k = 0 THEN 0
    ELSE (IF watchers[k].type = type THEN Held(k) ELSE 0) + HeldSum(type, k - 1)

\* C5: an aggregator about to be emitted holds the sum of the interval's
\* accumulators of every watch of its type.
C5_AggregatorHoldsSum ==
    pc = "aggr"
    => \A j \in (i + 1)..Len(aggregators) :
          aggregators[j].data = HeldSum(aggregators[j].type, Len(watchers))

\* C6: when the loop over the watches is left without a sink failure, every
\* watch's accumulator has been reset exactly once in this cycle.
C6_ResetOncePerCycle ==
    (pc = "aggr" /\ ~cyc.wfail)
    => \A k \in 1..Len(watchers) : cyc.nclear[k] = 1

\* C7: the stored buffered length of every watch is below the capacity.
C7_BufferedBelowCapacity ==
    \A k \in 1..Len(watchers) :
        Len(watchers[k].buf) >= 0 /\ Len(watchers[k].buf) < Capacity

\* A full buffer without terminator has been drained by truncation, and the
\* file has been rotated.
C7_Witness ==
    \E k \in LogWatches :
        /\ gh[k].reopens > 0
        /\ Len(TailOf(gh[k].hist)) = Capacity
        /\ watchers[k].buf = <<>>
        /\ watchers[k].skip = SKIP_THE_REST

C9_ExitCodes ==
    pc = "exited"
    => exitCode = (IF watchers = <<>> \/ cyc.wfail \/ cyc.afail THEN 1 ELSE 0)

\* C10: after a watch's snapshot emission has failed, no aggregator snapshot
\* is emitted and no aggregator is reset.
C10_NothingAfterSinkFailure ==
    cyc.wfail => (cyc.aemit = 0 /\ cyc.aclear = 0)

\* C11: once the timer has fired and the interval cycle has started, main
\* gets back to the multiplexing wait or leaves the loop.
C11_CycleTerminates ==
    (pc = "timer") ~> (pc \in {"poll", "cleanup", "exited"})

\* C12: a wake-up that finds the signal descriptor readable handles the
\* signal first and then only leaves the loop: the notification queue and
\* the timer are left as they are, no watch and no aggregator changes, no
\* line is read and no snapshot is emitted.
C12_SignalShortCircuits ==
    [][/\ (pc = "poll" /\ sigPending /\ pc' # "poll") => pc' = "signal"
       /\ (revents.sig /\ pc \in {"signal", "cleanup"})
          => /\ pc' \in {"cleanup", "exited"}
             /\ UNCHANGED <<watchers, aggregators, ofd, gh, cyc, events,
                            timerPending>>]_vars

\* The signal, a notification record and the timer were all ready in the
\* wake-up that ended the loop; the record and the timer are still pending.
C12_Witness ==
    /\ pc = "cleanup"
    /\ revents.sig /\ revents.fs /\ revents.timer
    /\ events # <<>>
    /\ timerPending

\* C13: a read_log_file call that ends on a failed read gives its caller a
\* result other than success.
C13_ReadErrorSignalled ==
    rdres.err => rdres.ret # ND_SUCCESS

\* The rotation handling of watch k in this step: the lines completed by
\* the bytes the old file holds past the offset are dispatched before the
\* reopen (for a watch not reopened before: the log is what the whole old
\* file owes), and the descriptor is then on the file named "current", at
\* its start.
DrainedThenReopened(k) ==
    /\ gh[k].reopens = 0 => gh'[k].log = Expected(gh[k].hist \o Avail(k))
    /\ gh'[k].logMark = Len(gh'[k].log)
    /\ ofd'[k] = [file |-> named[watchers[k].watch_dir], pos |-> 0]

\* The reader has consumed the old file up to its end.
ReadToEnd(k) ==
    /\ gh'[k].hist = gh[k].hist \o Avail(k)
    /\ gh'[k].histMark = Len(gh'[k].hist)

\* The watches whose rotation is handled by this step.
Rotated == {k \in LogWatches : gh'[k].reopens = gh[k].reopens + 1}

ReadBy == {k \in LogWatches : (pc = "watch" /\ i + 1 = k) \/ k \in Rotated}

\* C15: a read_log_file call whose first read yields no byte (end of file,
\* would-block or failure) leaves the buffer, its length, skip and, in the
\* interval cycle, the descriptor and its offset as they were and dispatches
\* no line; and after a call that ends on a failed read the buffer still
\* holds the unfinished line read so far.
C15_FailedReadLeavesWatch ==
    [][\A k \in ReadBy :
          /\ (watchers[k].fd # NoFd /\ rdres'.n = 0)
             => /\ watchers'[k].buf = watchers[k].buf
                /\ watchers'[k].skip = watchers[k].skip
                /\ gh'[k].log = gh[k].log
                /\ pc = "watch" => (watchers'[k].fd = watchers[k].fd /\ ofd'[k] = ofd[k])
          /\ (rdres'.err /\ gh[k].reopens = 0 /\ AllShort(gh'[k].hist))
             => watchers'[k].buf = TailOf(gh'[k].hist)]_vars

\* "a" was buffered by one call and the first read of the next call failed:
\* "a" is still buffered.
C15_Witness ==
    \E k \in LogWatches :
        /\ gh[k].hist = <<"a">>
        /\ watchers[k].buf = <<"a">>
        /\ rdres.watch = k /\ rdres.err /\ rdres.n = 0

\* The watches a notification record is for: same directory token, and the
\* watched file name is the record's entry name.
Target(ev) ==
    {k \in 1..Len(watchers) :
        watchers[k].watch_dir = ev.wd /\ watchers[k].file_name = ev.name}

\* C16: the handling of a notification record runs the rotation handling on
\* the watches the record is for and leaves every other watch (descriptor,
\* offset, buffer, skip, accumulator, history) as it was; and main leaves
\* the notification handling only when no record is pending.
C16_OnlyMatchingWatches ==
    [][pc = "fs"
       => /\ pc' # "fs" => events = <<>>
          /\ events # <<>>
             => \A k \in 1..Len(watchers) :
                   IF k \in Target(Head(events))
                   THEN gh'[k].reopens = gh[k].reopens + 1
                   ELSE /\ watchers'[k] = watchers[k]
                        /\ ofd'[k] = ofd[k]
                        /\ gh'[k] = gh[k]]_vars

\* The record for the first log directory has been handled: the first log
\* watch has been through a rotation and holds a line drained from its old
\* file, the second log watch and the queue watch have not been touched.
C16_Witness ==
    /\ pc = "fs"
    /\ events = <<>>
    /\ Len(watchers) = 3
    /\ gh[1].reopens = 1 /\ watchers[1].data = 1
    /\ gh[2].reopens = 0 /\ gh[2].hist = <<>>
    /\ watchers[3].fd = NoFd /\ watchers[3].data = 0

\* The bytes watch k read, and the lines it dispatched, before its reopen
\* (for a watch reopened at most once).
BeforeReopen(k) ==
    IF gh[k].reopens = 0 THEN gh[k].hist ELSE SubSeq(gh[k].hist, 1, gh[k].histMark)

LogBeforeReopen(k) ==
    IF gh[k].reopens = 0 THEN gh[k].log ELSE SubSeq(gh[k].log, 1, gh[k].logMark)

\* C17: for a watch created on an existing file (file id k, the file
\* "current" of directory k at startup), the bytes read before the first
\* rotation are bytes of that file past its length at attach time, from the
\* attach point on without a gap, and the lines dispatched before the first
\* rotation are the lines those bytes owe.
C17_AttachAtEnd ==
    \A k \in LogWatches :
        (gh[k].attach >= 0 /\ gh[k].reopens <= 1)
        => /\ gh[k].reopens = 0 => ofd[k].pos = gh[k].attach + Len(gh[k].hist)
           /\ gh[k].attach + Len(BeforeReopen(k)) <= Len(files[k])
           /\ BeforeReopen(k) = SubSeq(files[k], gh[k].attach + 1,
                                       gh[k].attach + Len(BeforeReopen(k)))
           /\ LogBeforeReopen(k) = Expected(BeforeReopen(k))

\* The file held "a" at attach time; "b" and the terminator were appended
\* and read: the line dispatched is "b".
C17_Witness ==
    \E k \in LogWatches :
        /\ gh[k].attach = 1
        /\ gh[k].reopens = 0
        /\ files[k] = <<"a", "b", NL>>
        /\ gh[k].log = << <<"b">> >>

\* C18: a round of the loop over the watches on the queue watch ticks its
\* accumulator, reads nothing and leaves the aggregators of the log kind as
\* they are; a round on a log watch runs the reader, adds to the watch's
\* accumulator the lines dispatched and nothing else, and combines the
\* emitted value into the aggregators of the log kind only.
C18_KindsKeptApart ==
    [][pc = "watch"
       => LET k == i + 1
              w == watchers[k]
              lines == Len(gh'[k].log) - Len(gh[k].log)
          IN  /\ w.type = WATCH_QUEUE
                 => /\ cyc'.wval[k] = w.data + 1
                    /\ gh'[k] = gh[k] /\ ofd'[k] = ofd[k] /\ rdres' = rdres
                    /\ \A j \in 1..Len(aggregators) :
                          aggregators'[j].data =
                            aggregators[j].data
                              + (IF aggregators[j].type = WATCH_QUEUE
                                 THEN cyc'.wval[k] ELSE 0)
              /\ w.type = WATCH_LOG_FILE
                 => /\ cyc'.wval[k] = w.data + lines
                    /\ rdres'.watch = k
                    /\ \A j \in 1..Len(aggregators) :
                          aggregators'[j].data =
                            aggregators[j].data
                              + (IF aggregators[j].type = WATCH_LOG_FILE
                                 THEN cyc'.wval[k] ELSE 0)]_vars

\* In one cycle the first log watch was emitted with one line and the
\* queue watch with one tick; the aggregator holds the log watch's line only.
C18_Witness ==
    /\ Len(watchers) = 3
    /\ pc = "watch"
    /\ cyc.wval[1] = 1
    /\ cyc.wval[3] = 1
    /\ aggregators[1].type = WATCH_LOG_FILE
    /\ aggregators[1].data = 1

\* C19: a reader run on a log watch without open file returns ND_FILE,
\* reads and dispatches nothing and keeps the buffer and skip; the handling
\* of a matching creation record opens the file named "current" at its start
\* (the watch stays without file when the name is gone again); and a watch
\* with an open file after a reopen has read the file from its start on,
\* and, when it had read nothing before, has dispatched the lines those bytes
\* owe.
C19_NoFileThenReopen ==
    [][/\ \A k \in ReadBy :
             watchers[k].fd = NoFd
             => /\ rdres'.watch = k /\ rdres'.ret = ND_FILE
                /\ gh'[k].hist = gh[k].hist
                /\ gh'[k].log = gh[k].log
                /\ watchers'[k].buf = watchers[k].buf
                /\ watchers'[k].skip = watchers[k].skip
                /\ IF k \in Rotated /\ named[watchers[k].watch_dir] # 0
                   THEN /\ watchers'[k].fd # NoFd
                        /\ ofd'[k] = [file |-> named[watchers[k].watch_dir], pos |-> 0]
                   ELSE watchers'[k].fd = NoFd
       /\ \A k \in LogWatches :
             (watchers[k].fd # NoFd /\ gh[k].reopens > 0)
             => /\ SinceReopen(k) = SubSeq(files[ofd[k].file], 1, ofd[k].pos)
                /\ gh[k].histMark = 0 => gh[k].log = Expected(gh[k].hist)]_vars

\* The directory had no file "current" at startup; the file was created, the
\* record handled, and a line appended to it has been dispatched.
C19_Witness ==
    \E k \in LogWatches :
        /\ gh[k].attach = -1
        /\ gh[k].reopens = 1
        /\ watchers[k].fd # NoFd
        /\ gh[k].hist = <<"a", NL>>
        /\ gh[k].log = << <<"a">> >>

\* C20: the interval cycle starts and runs with no notification record
\* pending; its read of a log watch is made on the file now named "current";
\* and in a wake-up that handled a rotation of the watch, the value the
\* cycle emits for it counts the lines drained from the old file besides
\* the lines the cycle's own read dispatches.
C20_RotationBeforeCycle ==
    [][/\ pc \in {"timer", "watch"} => events = <<>>
       /\ pc = "watch"
          => LET k == i + 1
                 lines == Len(gh'[k].log) - Len(gh[k].log)
             IN  watchers[k].type = WATCH_LOG_FILE
                 => /\ named[watchers[k].watch_dir] # 0
                       => ofd[k].file = named[watchers[k].watch_dir]
                    /\ (revents.fs /\ rdres.watch = k)
                       => /\ gh[k].reopens > 0
                          /\ ofd[k].pos = 0
                          /\ cyc'.wval[k] >= rdres.disp + lines]_vars

\* The notification channel and the timer were ready in the same wake-up:
\* the line "a" was drained from the old file, and the cycle, whose read
\* found the new file empty, emitted the value 1 for the watch.
C20_Witness ==
    \E k \in LogWatches :
        /\ pc = "aggr"
        /\ revents.fs /\ revents.timer
        /\ gh[k].reopens = 1
        /\ gh[k].hist = <<"a", NL>> /\ gh[k].histMark = 2
        /\ gh[k].log = << <<"a">> >> /\ gh[k].logMark = 1
        /\ ofd[k].file = named[watchers[k].watch_dir]
        /\ cyc.wval[k] = 1
====
